---- MODULE Spec2Model ----
(***************************************************************************)
(* Model of the onion feature-extraction and scoring engine                *)
(* (class OnionFeatureExtractor) of hemathens/onion-model.                 *)
(*                                                                         *)
(* Numbers.  The JavaScript code computes in IEEE doubles; the model       *)
(* computes the same quantities exactly:                                   *)
(*   - a brightness (r+g+b)/3 is carried as the channel sum r+g+b, and     *)
(*     every threshold on it is multiplied by 3;                           *)
(*   - a ratio a/b is carried as the reduced fraction [num, den];          *)
(*   - the shelf life before rounding is carried in tenths of a day;       *)
(*   - a dimension is carried in tenths of a millimetre, with a flag for   *)
(*     the NaN that 0 * Infinity produces.                                 *)
(* A raster is a function from the pixel index (y*width + x) to the        *)
(* triple <<r, g, b>>; the alpha channel is never read by the code.        *)
(***************************************************************************)
EXTENDS Integers, Sequences, FiniteSets, TLC

VARIABLES pc, raster, thisFeatures, features, shelfLife, grade, remembered,
          pixel, isOnion, flood, tally, app

vars == <<pc, raster, thisFeatures, features, shelfLife, grade, remembered,
          pixel, isOnion, flood, tally, app>>

(***************************************************************************)
(* Bounds of the model.                                                    *)
(***************************************************************************)
\* side of the square raster (224 in the program)
Size == 3
\* a raster of the family is a uniform background with at most MaxPaint
\* pixels painted in one other colour
MaxPaint == 2
\* getQualityGrade is also given the days ExtraDays below 0 and above 37
ExtraDays == 15
\* the cluster size at which floodFill stops pushing neighbours
\* (100 in the program, scaled to the raster as Size is)
ClusterLimit == 3
\* the largest pixel count given to the ratio mappings
MaxCount == 100
\* the largest number of classes a model returns
MaxClasses == 5
\* the largest probability, in halves
MaxProb == 2
\* Math.random() returns k / RandomSteps for k in 0 .. RandomSteps - 1
RandomSteps == 18
\* Date.now() returns up to MaxClock half seconds
MaxClock == 36
\* the most loop invocations alive at once: frames pending or awaiting predict
MaxChains == 2
\* the cap on predictionStabilityCounter
MaxCounter == 32
\* the most initWebcam calls in progress at once
MaxStarts == 2

(***************************************************************************)
(* Arithmetic helpers.                                                     *)
(***************************************************************************)
Abs(x) == IF x < 0 THEN -x ELSE x

Max2(a, b) == IF a >= b THEN a ELSE b

Min2(a, b) == IF a <= b THEN a ELSE b

Max3(a, b, c) == Max2(a, Max2(b, c))

Min3(a, b, c) == Min2(a, Min2(b, c))

RECURSIVE GCD(_, _)
GCD(a, b) == IF b = 0 THEN a ELSE GCD(b, a % b)

\* the quotient n/d (n >= 0, d > 0) as a reduced fraction
Ratio(n, d) == LET k == GCD(n, d) IN [num |-> n \div k, den |-> d \div k]

Zero == [num |-> 0, den |-> 1]

AddRat(a, b) == Ratio(a.num * b.den + b.num * a.den, a.den * b.den)

\* a / n for a fraction a and a count n > 0
DivRat(a, n) == Ratio(a.num, a.den * n)

\* a > p/q, a < p/q for a fraction a and integers p >= 0, q > 0
GtRat(a, p, q) == a.num * q > p * a.den

LtRat(a, p, q) == a.num * q < p * a.den

\* Math.floor(p/q) for q > 0
Floor(p, q) == p \div q

\* Math.round(p/q) for q # 0: the nearest integer, halves towards +Infinity
Round(p, q) == IF q > 0 THEN (2 * p + q) \div (2 * q)
               ELSE (2 * (-p) + (-q)) \div (2 * (-q))

RECURSIVE SumOver(_, _)
\* the sum of f[i] over the finite set S of pixel indexes
SumOver(S, f) == IF S = {} THEN 0
                 ELSE LET i == CHOOSE j \in S : TRUE
                      IN f[i] + SumOver(S \ {i}, f)

RECURSIVE SumRatOver(_, _)
SumRatOver(S, f) == IF S = {} THEN Zero
                    ELSE LET i == CHOOSE j \in S : TRUE
                         IN AddRat(f[i], SumRatOver(S \ {i}, f))

(***************************************************************************)
(* PixelClassifier.                                                        *)
(***************************************************************************)
\* r + g + b: three times the brightness (r + g + b) / 3
Sum3(r, g, b) == r + g + b

isOnionPixelNoPurple(r, g, b, allowDark) ==
    IF allowDark /\ Sum3(r, g, b) < 240 /\ Sum3(r, g, b) > 30
         /\ r >= g /\ r >= b /\ r < 120
    THEN TRUE
    ELSE IF r >= 80 /\ r <= 230 /\ g >= 50 /\ g <= 200 /\ b >= 20 /\ b <= 130
              /\ r > b + 20
    THEN TRUE
    ELSE IF r >= 170 /\ g >= 170 /\ b >= 170 /\ r <= 255 /\ g <= 255 /\ b <= 255
    THEN TRUE
    ELSE FALSE

isOnionPixel(r, g, b, allowDark) ==
    IF allowDark /\ Sum3(r, g, b) < 240 /\ Sum3(r, g, b) > 30
         /\ r >= g /\ r >= b /\ r < 120
    THEN TRUE
    ELSE IF r >= 80 /\ r <= 230 /\ g >= 50 /\ g <= 200 /\ b >= 20 /\ b <= 130
              /\ r > b + 20
    THEN TRUE
    ELSE IF r >= 170 /\ g >= 170 /\ b >= 170 /\ r <= 255 /\ g <= 255 /\ b <= 255
    THEN TRUE
    ELSE IF r >= 80 /\ r <= 180 /\ b >= 70 /\ b <= 170 /\ r > g - 10 /\ b > g - 30
    THEN TRUE
    ELSE FALSE

(***************************************************************************)
(* ShelfLifeEstimator.                                                     *)
(***************************************************************************)
calculateShelfLifeNonStrict(f) ==
    LET s0 == 300
        s1 == s0 - f.black_spots_count * 8
        s2 == s1 - (f.surface_texture_score - 1) * 30
        s3 == s2 - (f.skin_condition_score - 1) * 40
        s4 == s3 - f.visible_damage_flag * 80
        s5 == IF ~LtRat(f.sprouting_detected, 5, 100) THEN s4 - 100
              ELSE IF ~LtRat(f.sprouting_detected, 2, 100) THEN s4 - 50
              ELSE s4
    IN Max2(0, Min2(37, Round(s5, 10)))

\* the four subtractions with the texture score counted from 2
qualityPenaltyFromTwo(f) ==
    f.black_spots_count * 8 + (f.surface_texture_score - 2) * 30
    + (f.skin_condition_score - 1) * 40 + f.visible_damage_flag * 80

\* lines 583-586: what the four subtractions take off, in tenths of a day
qualityPenalty(f) ==
    f.black_spots_count * 8 + (f.surface_texture_score - 1) * 30
    + (f.skin_condition_score - 1) * 40 + f.visible_damage_flag * 80

\* the sprouting penalty with the two amounts exchanged
sproutingPenaltySwapped(f) ==
    IF GtRat(f.sprouting_detected, 5, 100) THEN 50
    ELSE IF GtRat(f.sprouting_detected, 2, 100) THEN 100
    ELSE 0

\* lines 589-593: the sprouting penalty, in tenths of a day
sproutingPenalty(f) ==
    IF GtRat(f.sprouting_detected, 5, 100) THEN 100
    ELSE IF GtRat(f.sprouting_detected, 2, 100) THEN 50
    ELSE 0

\* shelfLife is carried in tenths of a day until Math.round
calculateShelfLife(f) ==
    LET s0 == 300
        s4 == s0 - qualityPenalty(f)
        s5 == s4 - sproutingPenalty(f)
    IN Max2(0, Min2(37, Round(s5, 10)))

getQualityGradeInclusive(s) ==
    IF s >= 25 THEN "A"
    ELSE IF s > 18 THEN "B"
    ELSE IF s > 10 THEN "C"
    ELSE "D"

getQualityGrade(s) ==
    IF s > 25 THEN "A"
    ELSE IF s > 18 THEN "B"
    ELSE IF s > 10 THEN "C"
    ELSE "D"

(***************************************************************************)
(* The raster.                                                             *)
(***************************************************************************)
Width == Size

Height == Size

\* pixel indexes: data[(y * width + x) * 4 ..] is pixel y * width + x
Pix == 0 .. (Width * Height - 1)

XOf(i) == i % Width

YOf(i) == i \div Width

Red(data, i) == data[i][1]

Green(data, i) == data[i][2]

Blue(data, i) == data[i][3]

\* three times the brightness of pixel i
Bright3(data, i) == Sum3(Red(data, i), Green(data, i), Blue(data, i))

\* saturation = maxColor === 0 ? 0 : (maxColor - minColor) / maxColor
Saturation(r, g, b) ==
    LET maxColor == Max3(r, g, b)
        minColor == Min3(r, g, b)
    IN IF maxColor = 0 THEN Zero ELSE Ratio(maxColor - minColor, maxColor)

SatOf(data, i) == Saturation(Red(data, i), Green(data, i), Blue(data, i))

\* this.isOnionPixel(r, g, b): allowDark takes its default, false
Subject(data, i) == isOnionPixel(Red(data, i), Green(data, i), Blue(data, i), FALSE)

SubjectPixels(data) == {i \in Pix : Subject(data, i)}

\* the interior scanned by analyzeSurfaceTexture and detectCuts:
\* y in 1 .. height - 2, x in 1 .. width - 2
Interior == {i \in Pix : /\ XOf(i) >= 1 /\ XOf(i) <= Width - 2
                         /\ YOf(i) >= 1 /\ YOf(i) <= Height - 2}

(***************************************************************************)
(* GeometryEstimator.                                                      *)
(***************************************************************************)
\* a JavaScript number p/q (q > 0), or NaN, or an infinity
Finite(p, q) == [kind |-> "finite", num |-> p, den |-> q]

NaN == [kind |-> "NaN", num |-> 0, den |-> 1]

Infinity == [kind |-> "Infinity", num |-> 0, den |-> 1]

NegInfinity == [kind |-> "-Infinity", num |-> 0, den |-> 1]

\* v * (75 / m): 75 / 0 is Infinity, and 0 * Infinity is NaN
Scaled(v, m) ==
    IF m = 0
    THEN IF v = 0 THEN NaN ELSE IF v > 0 THEN Infinity ELSE NegInfinity
    ELSE IF m > 0 THEN Finite(75 * v, m) ELSE Finite(-(75 * v), -m)

\* Math.round(x * 10) / 10, in tenths
Mm(x) == IF x.kind = "finite"
         THEN [kind |-> "finite", tenths |-> Round(10 * x.num, x.den)]
         ELSE [kind |-> x.kind, tenths |-> 0]

\* classifySize with the band limits taken inclusively
classifySizeInclusive(diameter) ==
    IF diameter.kind = "-Infinity" THEN "Small"
    ELSE IF diameter.kind = "finite" /\ diameter.num <= 50 * diameter.den THEN "Small"
    ELSE IF diameter.kind = "finite" /\ diameter.num <= 75 * diameter.den THEN "Medium"
    ELSE IF diameter.kind = "finite" /\ diameter.num <= 100 * diameter.den THEN "Large"
    ELSE "Extra Large"

classifySize(diameter) ==
    IF diameter.kind = "-Infinity" THEN "Small"
    ELSE IF diameter.kind = "finite" /\ diameter.num < 50 * diameter.den THEN "Small"
    ELSE IF diameter.kind = "finite" /\ diameter.num < 75 * diameter.den THEN "Medium"
    ELSE IF diameter.kind = "finite" /\ diameter.num < 100 * diameter.den THEN "Large"
    ELSE "Extra Large"

RECURSIVE MinOver(_, _, _)
\* Math.min folded over the subject pixels, starting from init
MinOver(S, f, init) == IF S = {} THEN init
                       ELSE LET i == CHOOSE j \in S : TRUE
                            IN Min2(f[i], MinOver(S \ {i}, f, init))

RECURSIVE MaxOver(_, _, _)
MaxOver(S, f, init) == IF S = {} THEN init
                       ELSE LET i == CHOOSE j \in S : TRUE
                            IN Max2(f[i], MaxOver(S \ {i}, f, init))

estimateDimensions(data, width, height) ==
    LET onionPixels == SubjectPixels(data)
        xs == [i \in Pix |-> XOf(i)]
        ys == [i \in Pix |-> YOf(i)]
        minX == MinOver(onionPixels, xs, width)
        maxX == MaxOver(onionPixels, xs, 0)
        minY == MinOver(onionPixels, ys, height)
        maxY == MaxOver(onionPixels, ys, 0)
        pixelWidth == maxX - minX
        pixelHeight == maxY - minY
        m == Max2(pixelWidth, pixelHeight)
    IN [length_mm |-> Mm(Scaled(pixelHeight, m)),
        width_mm |-> Mm(Scaled(pixelWidth, m)),
        height_mm |-> Mm(Scaled(pixelWidth, m)),
        diameter_mm |-> Mm(Scaled(m, m)),
        size_class |-> classifySize(Scaled(m, m))]

(***************************************************************************)
(* DefectDensityAnalyzer.                                                  *)
(***************************************************************************)
\* brightness < 80 && brightness > 20, on a subject pixel
DarkSpot(data, i) == Bright3(data, i) < 240 /\ Bright3(data, i) > 60

\* the third band starting again from 2
poorBandFromTwo(darkSpotPixels, onionPixels) ==
    2 + Floor(150 * darkSpotPixels - 12 * onionPixels, onionPixels)

\* line 176: 8 + Math.floor((darkRatio - 0.08) * 150)
poorBand(darkSpotPixels, onionPixels) ==
    8 + Floor(150 * darkSpotPixels - 12 * onionPixels, onionPixels)

spotCountUnclamped(darkSpotPixels, onionPixels) ==
    IF 100 * darkSpotPixels < 2 * onionPixels
    THEN Floor(100 * darkSpotPixels, onionPixels)
    ELSE IF 100 * darkSpotPixels < 8 * onionPixels
    THEN 2 + Floor(100 * darkSpotPixels - 2 * onionPixels, onionPixels)
    ELSE 8 + Floor(150 * darkSpotPixels - 12 * onionPixels, onionPixels)

\* lines 163-179: darkRatio = darkSpotPixels / onionPixels mapped to a count
spotCount(darkSpotPixels, onionPixels) ==
    LET darkRatio100 == 100 * darkSpotPixels
        count == IF darkRatio100 < 2 * onionPixels
                 THEN Floor(darkRatio100, onionPixels)
                 ELSE IF darkRatio100 < 8 * onionPixels
                 THEN 2 + Floor(darkRatio100 - 2 * onionPixels, onionPixels)
                 ELSE poorBand(darkSpotPixels, onionPixels)
    IN Min2(21, Max2(0, count))

blackSpotsFlatSlope(darkSpotPixels, onionPixels) ==
    LET darkRatio100 == 100 * darkSpotPixels
        count == IF darkRatio100 < 2 * onionPixels
                 THEN Floor(darkRatio100, onionPixels)
                 ELSE IF darkRatio100 < 8 * onionPixels
                 THEN 2 + Floor(darkRatio100 - 2 * onionPixels, onionPixels)
                 ELSE 8 + Floor(darkRatio100 - 8 * onionPixels, onionPixels)
    IN IF onionPixels = 0 THEN 0 ELSE Min2(21, Max2(0, count))

\* lines 161-179: the result of countBlackSpots from its two counters
blackSpots(darkSpotPixels, onionPixels) ==
    IF onionPixels = 0 THEN 0 ELSE spotCount(darkSpotPixels, onionPixels)

countBlackSpots(data) ==
    LET onionPixels == Cardinality(SubjectPixels(data))
        darkSpotPixels == Cardinality({i \in SubjectPixels(data) : DarkSpot(data, i)})
    IN blackSpots(darkSpotPixels, onionPixels)

\* brightness >= 40 && brightness < 100 && r >= g && r >= b
Bruised(data, i) == /\ Bright3(data, i) >= 120 /\ Bright3(data, i) < 300
                    /\ Red(data, i) >= Green(data, i)
                    /\ Red(data, i) >= Blue(data, i)

detectBruises(data) ==
    LET onionPixels == Cardinality(SubjectPixels(data))
        bruisedPixels == Cardinality({i \in SubjectPixels(data) : Bruised(data, i)})
    IN IF onionPixels = 0 THEN 0
       ELSE IF 100 * bruisedPixels > 5 * onionPixels THEN 1 ELSE 0

\* brightness < 70 && saturation < 0.25
\* the lesion test with the saturation limit of 0.30
LesionWide(data, i) == Bright3(data, i) < 210 /\ LtRat(SatOf(data, i), 30, 100)

\* brightness < 70 && saturation < 0.25
Lesion(data, i) == Bright3(data, i) < 210 /\ LtRat(SatOf(data, i), 25, 100)

detectLesions(data) ==
    LET onionPixels == Cardinality(SubjectPixels(data))
        lesionPixels == Cardinality({i \in SubjectPixels(data) : Lesion(data, i)})
    IN IF onionPixels = 0 THEN 0
       ELSE IF 100 * lesionPixels > 6 * onionPixels THEN 1 ELSE 0

\* brightness > 120 && saturation > 0.25 && r > g && g > b
GoodSkin(data, i) == /\ Bright3(data, i) > 360
                     /\ GtRat(SatOf(data, i), 25, 100)
                     /\ Red(data, i) > Green(data, i)
                     /\ Green(data, i) > Blue(data, i)

PoorSkinWide(data, i) == Bright3(data, i) < 360 \/ LtRat(SatOf(data, i), 15, 100)

\* brightness < 80 || saturation < 0.15
PoorSkin(data, i) == Bright3(data, i) < 240 \/ LtRat(SatOf(data, i), 15, 100)

analyzeSkinConditionDefaultPoor(data) ==
    LET onionPixels == SubjectPixels(data)
        samples == Cardinality(onionPixels)
        totalBrightness3 == SumOver(onionPixels, [i \in Pix |-> Bright3(data, i)])
        totalSaturation == SumRatOver(onionPixels, [i \in Pix |-> SatOf(data, i)])
        goodSkinPixels == Cardinality({i \in onionPixels : GoodSkin(data, i)})
        poorSkinPixels == Cardinality({i \in onionPixels : PoorSkin(data, i)})
    IN IF samples = 0 THEN 5
       ELSE LET avgSaturation == DivRat(totalSaturation, samples)
            IN IF /\ 10 * goodSkinPixels > 4 * samples
                  /\ totalBrightness3 > 390 * samples
                  /\ GtRat(avgSaturation, 30, 100)
               THEN 1
               ELSE IF /\ 100 * goodSkinPixels > 25 * samples
                       /\ totalBrightness3 > 330 * samples
                       /\ GtRat(avgSaturation, 25, 100)
               THEN 2
               ELSE IF 10 * poorSkinPixels < 3 * samples
                       /\ totalBrightness3 > 270 * samples
               THEN 3
               ELSE IF 10 * poorSkinPixels < 5 * samples
                       \/ totalBrightness3 > 210 * samples
               THEN 4
               ELSE 5

\* avgBrightness = totalBrightness / samples is compared as
\* totalBrightness3 against 3 * threshold * samples
analyzeSkinCondition(data) ==
    LET onionPixels == SubjectPixels(data)
        samples == Cardinality(onionPixels)
        totalBrightness3 == SumOver(onionPixels, [i \in Pix |-> Bright3(data, i)])
        totalSaturation == SumRatOver(onionPixels, [i \in Pix |-> SatOf(data, i)])
        goodSkinPixels == Cardinality({i \in onionPixels : GoodSkin(data, i)})
        poorSkinPixels == Cardinality({i \in onionPixels : PoorSkin(data, i)})
    IN IF samples = 0 THEN 3
       ELSE LET avgSaturation == DivRat(totalSaturation, samples)
            IN IF /\ 10 * goodSkinPixels > 4 * samples
                  /\ totalBrightness3 > 390 * samples
                  /\ GtRat(avgSaturation, 30, 100)
               THEN 1
               ELSE IF /\ 100 * goodSkinPixels > 25 * samples
                       /\ totalBrightness3 > 330 * samples
                       /\ GtRat(avgSaturation, 25, 100)
               THEN 2
               ELSE IF 10 * poorSkinPixels < 3 * samples
                       /\ totalBrightness3 > 270 * samples
               THEN 3
               ELSE IF 10 * poorSkinPixels < 5 * samples
                       \/ totalBrightness3 > 210 * samples
               THEN 4
               ELSE 5

(***************************************************************************)
(* TextureAnalyzer, EdgeCutDetector, SproutDetector, ColorStatsAggregator. *)
(***************************************************************************)
\* [x-1, y], [x+1, y], [x, y-1], [x, y+1] of an interior pixel
Neighbors(i) == {i - 1, i + 1, i - Width, i + Width}

NeighborSum3SubjectOnly(data, i) ==
    SumOver({n \in Neighbors(i) : Subject(data, n)},
            [n \in Pix |-> Abs(Bright3(data, i) - Bright3(data, n))])

\* three times neighborSum: the sum of |centerBrightness - nBrightness|
NeighborSum3(data, i) ==
    SumOver(Neighbors(i), [n \in Pix |-> Abs(Bright3(data, i) - Bright3(data, n))])

textureScoreZeroSampleRough(totalVariance12, samples) ==
    IF samples > 0 /\ totalVariance12 < 120 * samples THEN 1
    ELSE IF samples > 0 /\ totalVariance12 < 240 * samples THEN 2
    ELSE IF samples > 0 /\ totalVariance12 < 420 * samples THEN 3
    ELSE 4

\* lines 267-274: avgVariance = totalVariance / samples (0 without samples),
\* with totalVariance12 = 12 * totalVariance
textureScore(totalVariance12, samples) ==
    IF samples = 0 THEN 1
    ELSE IF totalVariance12 < 120 * samples THEN 1
    ELSE IF totalVariance12 < 240 * samples THEN 2
    ELSE IF totalVariance12 < 420 * samples THEN 3
    ELSE 4

analyzeSurfaceTexture(data) ==
    LET sampled == {i \in Interior : Subject(data, i)}
        samples == Cardinality(sampled)
        totalVariance12 == SumOver(sampled, [i \in Pix |-> NeighborSum3(data, i)])
    IN textureScore(totalVariance12, samples)

\* an interior subject pixel whose right-hand neighbour is a subject pixel
EdgeChecksWholeRaster(data) ==
    {i \in Pix : XOf(i) < Width - 1 /\ Subject(data, i) /\ Subject(data, i + 1)}

EdgeChecks(data) == {i \in Interior : Subject(data, i) /\ Subject(data, i + 1)}

\* Math.abs(brightness - rightBrightness) > 60
SharpEdge(data, i) == Abs(Bright3(data, i) - Bright3(data, i + 1)) > 180

cutsFlagInclusive(sharpEdgeCount, totalEdgeChecks) ==
    IF totalEdgeChecks = 0 THEN 0
    ELSE IF 100 * sharpEdgeCount >= 3 * totalEdgeChecks THEN 1 ELSE 0

\* lines 446-451: sharpEdgeRatio > 0.03 ? 1 : 0, and 0 without checks
cutsFlag(sharpEdgeCount, totalEdgeChecks) ==
    IF totalEdgeChecks = 0 THEN 0
    ELSE IF 100 * sharpEdgeCount > 3 * totalEdgeChecks THEN 1 ELSE 0

detectCuts(data) ==
    LET totalEdgeChecks == Cardinality(EdgeChecks(data))
        sharpEdgeCount == Cardinality({i \in EdgeChecks(data) : SharpEdge(data, i)})
    IN cutsFlag(sharpEdgeCount, totalEdgeChecks)

\* g > r + 35 && g > b + 35 && g >= 100
GreenPixel(data, i) == /\ Green(data, i) > Red(data, i) + 35
                       /\ Green(data, i) > Blue(data, i) + 35
                       /\ Green(data, i) >= 100

\* line 510: totalPixels > 0 ? greenPixels / totalPixels : 0
sproutRatio(greenPixels, totalPixels) ==
    IF totalPixels > 0 THEN Ratio(greenPixels, totalPixels) ELSE Zero

detectSproutingSubjectOnly(data) ==
    LET totalPixels == Cardinality(SubjectPixels(data))
        greenPixels == Cardinality({i \in SubjectPixels(data) : GreenPixel(data, i)})
    IN sproutRatio(greenPixels, totalPixels)

detectSprouting(data) ==
    LET totalPixels == Cardinality(Pix)
        greenPixels == Cardinality({i \in Pix : GreenPixel(data, i)})
    IN sproutRatio(greenPixels, totalPixels)

analyzeColor(data) ==
    LET onionPixels == SubjectPixels(data)
        samples == Cardinality(onionPixels)
        totalBrightness3 == SumOver(onionPixels, [i \in Pix |-> Bright3(data, i)])
        totalSaturation == SumRatOver(onionPixels, [i \in Pix |-> SatOf(data, i)])
    IN [avg_brightness |-> IF samples > 0 THEN Ratio(totalBrightness3, 3 * samples)
                           ELSE Zero,
        avg_saturation |-> IF samples > 0 THEN DivRat(totalSaturation, samples)
                           ELSE Zero]

(***************************************************************************)
(* Orchestration.                                                          *)
(***************************************************************************)
\* (has_bruises || has_cuts || has_lesions) ? 1 : 0
visibleDamageFlagAll(has_bruises, has_cuts, has_lesions) ==
    IF has_bruises = 1 /\ has_cuts = 1 /\ has_lesions = 1 THEN 1 ELSE 0

visibleDamageFlag(has_bruises, has_cuts, has_lesions) ==
    IF has_bruises # 0 \/ has_cuts # 0 \/ has_lesions # 0 THEN 1 ELSE 0

\* the record built by extractFeatures from the 224 x 224 canvas contents
FeaturesOf(data) ==
    LET dimensions == estimateDimensions(data, Width, Height)
        black_spots_count == countBlackSpots(data)
        surface_texture_score == analyzeSurfaceTexture(data)
        skin_condition_score == analyzeSkinCondition(data)
        has_bruises == detectBruises(data)
        has_cuts == detectCuts(data)
        has_lesions == detectLesions(data)
        color_analysis == analyzeColor(data)
        sprouting_detected == detectSprouting(data)
    IN [dimensions |-> dimensions,
        black_spots_count |-> black_spots_count,
        surface_texture_score |-> surface_texture_score,
        skin_condition_score |-> skin_condition_score,
        has_bruises |-> has_bruises,
        has_cuts |-> has_cuts,
        has_lesions |-> has_lesions,
        color_analysis |-> color_analysis,
        sprouting_detected |-> sprouting_detected,
        visible_damage_flag |-> visibleDamageFlag(has_bruises, has_cuts, has_lesions)]

(***************************************************************************)
(* Inputs.                                                                 *)
(***************************************************************************)
BLACK == <<0, 0, 0>>

\* the sprout colour of the synthetic green stripe
GREEN == <<60, 140, 60>>

\* the uniform golden raster's colour: brightness 110, saturation 3/5
GOLDEN == <<150, 120, 60>>

\* brightness 123.3, saturation 2/3
MIDGOLD == <<180, 130, 60>>

\* brightness 150, saturation 8/11
BRIGHTGOLD == <<220, 170, 60>>

WHITE == <<255, 255, 255>>

\* a dark warm subject colour: brightness 63.3, saturation 7/10
BRUISE == <<100, 60, 30>>

Palette == {BLACK, GREEN, GOLDEN, MIDGOLD, BRIGHTGOLD, WHITE, BRUISE}

Uniform(c) == [i \in Pix |-> c]

\* the background bg with the pixels of S painted in fg
Paint(bg, fg, S) == [i \in Pix |-> IF i \in S THEN fg ELSE bg]

Rasters ==
    {Paint(bg, fg, S) : bg \in Palette, fg \in Palette,
                        S \in {T \in SUBSET Pix : Cardinality(T) <= MaxPaint}}

\* pixel (1, 1)
CentrePix == Width + 1

\* the rasters passed to one extractor instance again and again
RepeatRasters ==
    {Paint(bg, fg, {CentrePix}) : bg \in {BLACK, GOLDEN, WHITE, BRUISE},
                                  fg \in {BLACK, GOLDEN, WHITE, BRUISE}}

\* channel values around every threshold of isOnionPixel
ChanVals == {0, 19, 20, 49, 50, 69, 70, 79, 80, 100, 130, 131, 150,
             169, 170, 171, 175, 180, 181, 200, 201, 230, 231, 255}

Pixels == [r : ChanVals, g : ChanVals, b : ChanVals, allowDark : BOOLEAN]

NoPixel == [r |-> 0, g |-> 0, b |-> 0, allowDark |-> FALSE]

SproutVals == {Ratio(0, 1), Ratio(1, 100), Ratio(2, 100), Ratio(3, 100),
               Ratio(5, 100), Ratio(6, 100), Ratio(1, 1)}

\* a record made by a caller of calculateShelfLife, which reads five fields
MakeRecord(spots, texture, skin, damage, sprouting) ==
    [dimensions |-> estimateDimensions(Uniform(BLACK), Width, Height),
     black_spots_count |-> spots,
     surface_texture_score |-> texture,
     skin_condition_score |-> skin,
     has_bruises |-> damage,
     has_cuts |-> 0,
     has_lesions |-> 0,
     color_analysis |-> [avg_brightness |-> Zero, avg_saturation |-> Zero],
     sprouting_detected |-> sprouting,
     visible_damage_flag |-> damage]

FeatureRecords ==
    {MakeRecord(k, t, s, v, sp) : k \in 0 .. 21, t \in 1 .. 4, s \in 1 .. 5,
                                  v \in {0, 1}, sp \in SproutVals}

NoRecord == MakeRecord(0, 1, 1, 0, Zero)

DaysArgs == (0 - ExtraDays) .. (37 + ExtraDays)

(***************************************************************************)
(* State of the operations that are not running.                           *)
(***************************************************************************)
\* no floodFill call
NoFlood == [startX |-> 0, startY |-> 0, visited0 |-> {}, visited |-> {},
            stack |-> <<>>, count |-> 0]

\* no call on pixel counts
NoTally == [num |-> 0, den |-> 0, spotCount |-> 0, cuts |-> 0,
            sprout |-> Zero, days |-> 0, lesions |-> 0]

\* the page before any prediction
NoApp == [demoMode |-> FALSE, model |-> FALSE, labelContainer |-> FALSE,
          predictedClass |-> <<>>, predictedIndex |-> 0, computed |-> 0,
          classRange |-> <<0, 0>>, days |-> 0, shown |-> "none",
          label |-> "", featuresContainer |-> "", called |-> {},
          threw |-> FALSE,
          webcam |-> FALSE, isWebcamRunning |-> FALSE,
          predictionStabilityCounter |-> 0,
          frames |-> 0, awaiting |-> <<0, 0, 0>>,
          starting |-> <<0, 0>>, startDisabled |-> FALSE,
          uploading |-> "idle",
          returned |-> {}, notLoaded |-> FALSE,
          updates |-> 0, gap |-> 30, quiet |-> FALSE,
          lateFrame |-> FALSE, lateWork |-> FALSE, failed |-> FALSE]

(***************************************************************************)
(* Operations.                                                             *)
(***************************************************************************)
\* a call that lets the damage flag of this.features leak into the result
extractFeaturesSticky(imageElement) ==
    /\ pc \in {"start", "graded"}
    /\ raster' = imageElement
    /\ LET f == FeaturesOf(imageElement)
           g == IF \E old \in thisFeatures : old.visible_damage_flag = 1
                THEN [f EXCEPT !.visible_damage_flag = 1]
                ELSE f
       IN thisFeatures' = {g} /\ features' = g
    /\ pc' = "extracted"
    /\ UNCHANGED <<shelfLife, grade, pixel, isOnion, flood, tally, app>>

\* featureExtractor.extractFeatures(imageElement): the canvas holds the
\* image, the record is built, stored in this.features and returned
extractFeatures(imageElement) ==
    /\ pc \in {"start", "graded"}
    /\ raster' = imageElement
    /\ LET f == FeaturesOf(imageElement)
       IN thisFeatures' = {f} /\ features' = f
    /\ pc' = "extracted"
    /\ UNCHANGED <<shelfLife, grade, pixel, isOnion, flood, tally, app>>

\* shelfLife = featureExtractor.calculateShelfLife(features)
ShelfLifeStep ==
    /\ pc = "extracted"
    /\ shelfLife' = calculateShelfLife(features)
    /\ pc' = "calculated"
    /\ UNCHANGED <<raster, thisFeatures, features, grade, remembered, pixel, isOnion, flood, tally, app>>

\* grade = featureExtractor.getQualityGrade(shelfLife)
GradeStep ==
    /\ pc \in {"calculated", "arg"}
    /\ grade' = getQualityGrade(shelfLife)
    /\ pc' = IF pc = "arg" THEN "argGraded" ELSE "graded"
    /\ UNCHANGED <<raster, thisFeatures, features, shelfLife, remembered, pixel, isOnion, flood, tally, app>>

\* isOnionPixel(r, g, b, allowDark)
ClassifyStep ==
    /\ pc = "pixel"
    /\ isOnion' = isOnionPixel(pixel.r, pixel.g, pixel.b, pixel.allowDark)
    /\ pc' = "classified"
    /\ UNCHANGED <<raster, thisFeatures, features, shelfLife, grade, remembered, pixel, flood, tally, app>>

\* history: the kept call notes that another raster was passed after it
Note(imageElement) ==
    remembered' = {[m EXCEPT !.other = m.other \/ imageElement # m.raster]
                   : m \in remembered}

\* history: one completed call of the instance is kept for comparison
Remember ==
    /\ pc = "graded"
    /\ remembered = {}
    /\ remembered' = {[raster |-> raster, features |-> features,
                       shelfLife |-> shelfLife, grade |-> grade,
                       other |-> FALSE]}
    /\ UNCHANGED <<pc, raster, thisFeatures, features, shelfLife, grade, pixel, isOnion, flood, tally, app>>

(***************************************************************************)
(* Specifications.                                                         *)
(***************************************************************************)
\* new OnionFeatureExtractor(): this.features = {}
Constructed ==
    /\ tally = NoTally
    /\ app = NoApp
    /\ thisFeatures = {}
    /\ features = NoRecord
    /\ shelfLife = 0
    /\ grade = "none"
    /\ remembered = {}
    /\ pixel = NoPixel
    /\ isOnion = FALSE

\* one analysis of one raster
Init ==
    /\ Constructed
    /\ flood = NoFlood
    /\ pc = "start"
    /\ raster \in Rasters

Next ==
    \/ extractFeatures(raster) /\ UNCHANGED remembered
    \/ ShelfLifeStep
    \/ GradeStep

Spec == Init /\ [][Next]_vars

\* repeated analyses on one instance
InitRepeat ==
    /\ Constructed
    /\ flood = NoFlood
    /\ pc = "start"
    /\ raster = Uniform(BLACK)

NextRepeat ==
    \/ \E imageElement \in RepeatRasters :
           extractFeatures(imageElement) /\ Note(imageElement)
    \/ ShelfLifeStep
    \/ GradeStep
    \/ Remember

SpecRepeat == InitRepeat /\ [][NextRepeat]_vars

\* calculateShelfLife and getQualityGrade on any caller's record or days
InitShelf ==
    /\ flood = NoFlood
    /\ tally = NoTally
    /\ app = NoApp
    /\ thisFeatures = {}
    /\ grade = "none"
    /\ remembered = {}
    /\ pixel = NoPixel
    /\ isOnion = FALSE
    /\ raster = Uniform(BLACK)
    /\ \/ pc = "extracted" /\ features \in FeatureRecords /\ shelfLife = 0
       \/ pc = "arg" /\ features = NoRecord /\ shelfLife \in DaysArgs

NextShelf ==
    \/ ShelfLifeStep
    \/ GradeStep

SpecShelf == InitShelf /\ [][NextShelf]_vars

\* isOnionPixel on any colour
InitPixel ==
    /\ flood = NoFlood
    /\ tally = NoTally
    /\ app = NoApp
    /\ thisFeatures = {}
    /\ features = NoRecord
    /\ shelfLife = 0
    /\ grade = "none"
    /\ remembered = {}
    /\ raster = Uniform(BLACK)
    /\ isOnion = FALSE
    /\ pc = "pixel"
    /\ pixel \in Pixels

NextPixel == ClassifyStep

SpecPixel == InitPixel /\ [][NextPixel]_vars

(***************************************************************************)
(* Properties.                                                             *)
(***************************************************************************)
Extracted == pc \in {"extracted", "calculated", "graded"}

Calculated == pc \in {"calculated", "graded"}

\* the three colour-family rules of section 4.1
WarmGolden(r, g, b) ==
    r >= 80 /\ r <= 230 /\ g >= 50 /\ g <= 200 /\ b >= 20 /\ b <= 130 /\ r > b + 20

AchromaticBright(r, g, b) == r >= 170 /\ g >= 170 /\ b >= 170

PurpleRed(r, g, b) ==
    r >= 80 /\ r <= 180 /\ b >= 70 /\ b <= 170 /\ r > g - 10 /\ b > g - 30

Rank(g) == IF g = "A" THEN 4 ELSE IF g = "B" THEN 3 ELSE IF g = "C" THEN 2 ELSE 1

\* C1: for a record within the documented ranges calculateShelfLife returns
\* the integer nearest to 30 - 0.8*spots - 3*(texture-1) - 4*(skin-1)
\* - 8*damage - penalty, clamped to [0,37], where penalty is 10 above 0.05
\* of sprouting, 5 above 0.02, else 0, both thresholds strict.
ShelfLifeFormula ==
    (/\ pc = "calculated"
     /\ features.black_spots_count \in 0 .. 21
     /\ features.surface_texture_score \in 1 .. 4
     /\ features.skin_condition_score \in 1 .. 5
     /\ features.visible_damage_flag \in {0, 1}
     /\ features.sprouting_detected.num >= 0
     /\ features.sprouting_detected.num <= features.sprouting_detected.den) =>
        LET sp == features.sprouting_detected
            penalty == IF 100 * sp.num > 5 * sp.den THEN 10
                       ELSE IF 100 * sp.num > 2 * sp.den THEN 5
                       ELSE 0
            raw10 == 300 - 8 * features.black_spots_count
                         - 30 * (features.surface_texture_score - 1)
                         - 40 * (features.skin_condition_score - 1)
                         - 80 * features.visible_damage_flag
                         - 10 * penalty
        IN \E n \in -60 .. 40 :
              /\ Abs(10 * n - raw10) <= 5
              /\ shelfLife = IF n < 0 THEN 0 ELSE IF n > 37 THEN 37 ELSE n

\* sprouting exactly 0.05 takes the penalty 5, and 27.6 - 5 rounds to 23
ShelfLifeFormulaWitness ==
    /\ pc = "calculated"
    /\ features = MakeRecord(3, 1, 1, 0, Ratio(5, 100))
    /\ shelfLife = 23

\* C2: every extracted record and the days derived from it are within
\* 0..21 spots, 1..4 texture, 1..5 skin, 0..37 days, 0..1 sprouting,
\* 0..1 average saturation and 0..255 average brightness.
BoundsHold ==
    /\ Extracted =>
         /\ features.black_spots_count \in 0 .. 21
         /\ features.surface_texture_score \in 1 .. 4
         /\ features.skin_condition_score \in 1 .. 5
         /\ features.sprouting_detected.num >= 0
         /\ features.sprouting_detected.num <= features.sprouting_detected.den
         /\ features.color_analysis.avg_saturation.num >= 0
         /\ features.color_analysis.avg_saturation.num
               <= features.color_analysis.avg_saturation.den
         /\ features.color_analysis.avg_brightness.num >= 0
         /\ features.color_analysis.avg_brightness.num
               <= 255 * features.color_analysis.avg_brightness.den
    /\ Calculated => shelfLife \in 0 .. 37

\* the spot count is cut off at 21 and the days at 0
BoundsHoldWitness ==
    /\ pc = "graded"
    /\ features.black_spots_count = 21
    /\ Cardinality(SubjectPixels(raster)) = Cardinality(Pix)
    /\ shelfLife = 0

AllBlackRecord ==
    /\ SubjectPixels(raster) = {}
    /\ features.black_spots_count = 0
    /\ features.skin_condition_score = 3
    /\ features.has_bruises = 0
    /\ features.has_cuts = 0
    /\ features.has_lesions = 0
    /\ features.visible_damage_flag = 0
    /\ features.color_analysis = [avg_brightness |-> Zero, avg_saturation |-> Zero]
    /\ features.sprouting_detected = Zero

\* C3 as stated: the all-black raster gives no subject pixels, no spots,
\* skin 3, no damage, colour {0,0}, no sprouting, 30 days and grade A.
AllBlackThirtyDays ==
    (pc = "graded" /\ raster = Uniform(BLACK)) =>
        AllBlackRecord /\ shelfLife = 30 /\ grade = "A"

\* C3 as amended: the same record, but the neutral skin score 3 costs
\* 2 * 4 days, so the days are 22 and the grade is B.
AllBlackTwentyTwoDays ==
    (pc = "graded" /\ raster = Uniform(BLACK)) =>
        AllBlackRecord /\ shelfLife = 22 /\ grade = "B"

AllBlackWitness ==
    /\ pc = "graded"
    /\ raster = Uniform(BLACK)
    /\ features.skin_condition_score = 3
    /\ shelfLife = 22

\* C4: on one instance the record, days and grade obtained for a raster
\* are those obtained for the same raster in an earlier call, whatever
\* was passed in between.
SameRasterSameResult ==
    \A m \in remembered :
        raster = m.raster =>
            /\ Extracted => features = m.features
            /\ Calculated => shelfLife = m.shelfLife
            /\ pc = "graded" => grade = m.grade

\* an undamaged raster is analysed again after a damaged one
SameRasterWitness ==
    \E m \in remembered :
        /\ m.other
        /\ raster = m.raster
        /\ pc = "graded"
        /\ features.visible_damage_flag = 0
        /\ \E f \in thisFeatures : f = m.features

\* C5: for days in 0..37 the grade is A iff days > 25, B iff 18 < days <= 25,
\* C iff 10 < days <= 18, D iff days <= 10, and no larger days value in
\* 0..37 gets a worse grade.
GradeBands ==
    (pc \in {"graded", "argGraded"} /\ shelfLife \in 0 .. 37) =>
        /\ grade \in {"A", "B", "C", "D"}
        /\ grade = "A" <=> shelfLife > 25
        /\ grade = "B" <=> (18 < shelfLife /\ shelfLife <= 25)
        /\ grade = "C" <=> (10 < shelfLife /\ shelfLife <= 18)
        /\ grade = "D" <=> shelfLife <= 10
        /\ \A d \in 0 .. 37 :
              d >= shelfLife => Rank(getQualityGrade(d)) >= Rank(grade)

\* 25 days is the top of band B
GradeBandsWitness ==
    /\ pc \in {"graded", "argGraded"}
    /\ shelfLife = 25
    /\ grade = "B"

\* C6: visible_damage_flag is set exactly when one of has_bruises,
\* has_cuts, has_lesions is set.
DamageFlagIsOr ==
    Extracted =>
        /\ features.visible_damage_flag \in {0, 1}
        /\ features.visible_damage_flag = 1 <=>
              \/ features.has_bruises = 1
              \/ features.has_cuts = 1
              \/ features.has_lesions = 1

\* a cut alone sets the flag
DamageFlagWitness ==
    /\ pc = "extracted"
    /\ features.has_cuts = 1
    /\ features.has_bruises = 0
    /\ features.has_lesions = 0
    /\ features.visible_damage_flag = 1

\* C7: on a raster without subject pixels countBlackSpots, detectBruises,
\* detectLesions and detectCuts return 0, analyzeSkinCondition 3,
\* analyzeSurfaceTexture 1 and analyzeColor {0, 0}.
ZeroSubjectFallbacks ==
    (Extracted /\ SubjectPixels(raster) = {}) =>
        /\ features.black_spots_count = 0
        /\ features.has_bruises = 0
        /\ features.has_lesions = 0
        /\ features.has_cuts = 0
        /\ features.skin_condition_score = 3
        /\ features.surface_texture_score = 1
        /\ features.color_analysis = [avg_brightness |-> Zero, avg_saturation |-> Zero]

\* a raster of black and sprout-green pixels has no subject pixel
ZeroSubjectWitness ==
    /\ pc = "extracted"
    /\ SubjectPixels(raster) = {}
    /\ \E i \in Pix : raster[i] = GREEN
    /\ \E i \in Pix : raster[i] = BLACK
    /\ features.surface_texture_score = 1

ZeroMm == [kind |-> "finite", tenths |-> 0]

\* C8: on a raster without subject pixels estimateDimensions returns
\* 0 for the four dimensions and the size class Small.
ZeroSubjectZeroDimensions ==
    (Extracted /\ SubjectPixels(raster) = {}) =>
        /\ features.dimensions.length_mm = ZeroMm
        /\ features.dimensions.width_mm = ZeroMm
        /\ features.dimensions.height_mm = ZeroMm
        /\ features.dimensions.diameter_mm = ZeroMm
        /\ features.dimensions.size_class = "Small"

\* C9: the four dimensions returned by estimateDimensions are finite
\* numbers >= 0, also when the bounding box has zero width and height.
DimensionsFinite ==
    Extracted =>
        \A d \in {features.dimensions.length_mm, features.dimensions.width_mm,
                  features.dimensions.height_mm, features.dimensions.diameter_mm} :
            d.kind = "finite" /\ d.tenths >= 0

\* C10 as stated: at most one of the three rules holds for a colour, and
\* isOnionPixel without allowDark is true iff one holds.
RulesDisjoint ==
    (pc = "classified" /\ ~pixel.allowDark) =>
        LET w == WarmGolden(pixel.r, pixel.g, pixel.b)
            a == AchromaticBright(pixel.r, pixel.g, pixel.b)
            p == PurpleRed(pixel.r, pixel.g, pixel.b)
        IN /\ ~(w /\ a) /\ ~(w /\ p) /\ ~(a /\ p)
           /\ isOnion <=> (w \/ a \/ p)

\* C10 as amended: the warm/golden and achromatic-bright rules exclude
\* each other, the purple/red rule overlaps both, and isOnionPixel
\* without allowDark is true iff at least one of the three holds.
RulesCoverClassifier ==
    (pc = "classified" /\ ~pixel.allowDark) =>
        LET w == WarmGolden(pixel.r, pixel.g, pixel.b)
            a == AchromaticBright(pixel.r, pixel.g, pixel.b)
            p == PurpleRed(pixel.r, pixel.g, pixel.b)
        IN /\ ~(w /\ a)
           /\ isOnion <=> (w \/ a \/ p)

\* a colour only the purple/red rule accepts
RulesCoverWitness ==
    /\ pc = "classified"
    /\ ~pixel.allowDark
    /\ PurpleRed(pixel.r, pixel.g, pixel.b)
    /\ ~WarmGolden(pixel.r, pixel.g, pixel.b)
    /\ ~AchromaticBright(pixel.r, pixel.g, pixel.b)
    /\ isOnion

(***************************************************************************)
(* ConnectivityAnalyzer: floodFill.                                        *)
(***************************************************************************)
\* a colour of brightness exactly 60, the first one floodFill rejects
DIM == <<60, 60, 60>>

FloodRasters ==
    {Paint(bg, fg, S) : bg \in {BLACK, DIM}, fg \in {BLACK, DIM},
                        S \in {T \in SUBSET Pix : Cardinality(T) <= MaxPaint}}

\* seeds inside the raster and one step outside it
FloodSeeds == (-1 .. Width) \X (-1 .. Height)

\* the visited sets a caller passes in
FloodVisited == SUBSET {<<0, 0>>, <<1, 1>>}

\* the loop body that forgets to test visited.has(key)
floodFillIterationNoVisitedTest(data, width, height, f) ==
    LET top == f.stack[Len(f.stack)]
        rest == SubSeq(f.stack, 1, Len(f.stack) - 1)
        x == top[1]
        y == top[2]
    IN IF x < 0 \/ x >= width \/ y < 0 \/ y >= height
       THEN [f EXCEPT !.stack = rest]
       ELSE IF Bright3(data, y * width + x) >= 180
       THEN [f EXCEPT !.stack = rest]
       ELSE [f EXCEPT !.visited = f.visited \cup {top},
                      !.count = f.count + 1,
                      !.stack = IF f.count + 1 < ClusterLimit
                                THEN rest \o << <<x + 1, y>>, <<x - 1, y>>,
                                                <<x, y + 1>>, <<x, y - 1>> >>
                                ELSE rest]

\* the loop body that leaves a rejected bright pixel on the stack
floodFillIterationNoPop(data, width, height, f) ==
    LET top == f.stack[Len(f.stack)]
        rest == SubSeq(f.stack, 1, Len(f.stack) - 1)
        x == top[1]
        y == top[2]
    IN IF top \in f.visited \/ x < 0 \/ x >= width \/ y < 0 \/ y >= height
       THEN [f EXCEPT !.stack = rest]
       ELSE IF Bright3(data, y * width + x) >= 180
       THEN f
       ELSE [f EXCEPT !.visited = f.visited \cup {top},
                      !.count = f.count + 1,
                      !.stack = IF f.count + 1 < ClusterLimit
                                THEN rest \o << <<x + 1, y>>, <<x - 1, y>>,
                                                <<x, y + 1>>, <<x, y - 1>> >>
                                ELSE rest]

\* one iteration of while (stack.length > 0): stack.pop(), the tests,
\* visited.add(key), count++ and the four pushes
floodFillIteration(data, width, height, f) ==
    LET top == f.stack[Len(f.stack)]
        rest == SubSeq(f.stack, 1, Len(f.stack) - 1)
        x == top[1]
        y == top[2]
    IN IF top \in f.visited \/ x < 0 \/ x >= width \/ y < 0 \/ y >= height
       THEN [f EXCEPT !.stack = rest]
       ELSE IF Bright3(data, y * width + x) >= 180
       THEN [f EXCEPT !.stack = rest]
       ELSE [f EXCEPT !.visited = f.visited \cup {top},
                      !.count = f.count + 1,
                      !.stack = IF f.count + 1 < ClusterLimit
                                THEN rest \o << <<x + 1, y>>, <<x - 1, y>>,
                                                <<x, y + 1>>, <<x, y - 1>> >>
                                ELSE rest]

FloodStep ==
    /\ pc = "flood"
    /\ flood.stack # <<>>
    /\ flood' = floodFillIteration(raster, Width, Height, flood)
    /\ UNCHANGED <<pc, raster, thisFeatures, features, shelfLife, grade,
                   remembered, pixel, isOnion, tally, app>>

\* return count
FloodReturn ==
    /\ pc = "flood"
    /\ flood.stack = <<>>
    /\ pc' = "returned"
    /\ UNCHANGED <<raster, thisFeatures, features, shelfLife, grade,
                   remembered, pixel, isOnion, flood, tally, app>>

\* floodFill(data, startX, startY, width, height, visited) is entered:
\* stack = [[startX, startY]], count = 0
InitFlood ==
    /\ Constructed
    /\ pc = "flood"
    /\ raster \in FloodRasters
    /\ \E seed \in FloodSeeds, v \in FloodVisited :
          flood = [startX |-> seed[1], startY |-> seed[2], visited0 |-> v,
                   visited |-> v, stack |-> <<seed>>, count |-> 0]

NextFlood ==
    \/ FloodStep
    \/ FloodReturn

SpecFlood == InitFlood /\ [][NextFlood]_vars

\* the loop runs on: nothing suspends it
SpecFloodFair == SpecFlood /\ WF_vars(NextFlood)

\* the coordinates floodFill has added to visited
FloodAdded == flood.visited \ flood.visited0

\* inside the raster, brightness < 60 and not visited before the call
FloodEligible ==
    {c \in (0 .. Width - 1) \X (0 .. Height - 1) :
        /\ Bright3(raster, c[2] * Width + c[1]) < 180
        /\ c \notin flood.visited0}

FourNeighbours(c) ==
    {<<c[1] + 1, c[2]>>, <<c[1] - 1, c[2]>>, <<c[1], c[2] + 1>>, <<c[1], c[2] - 1>>}

RECURSIVE FloodClosure(_)
FloodClosure(S) ==
    LET T == S \cup {c \in FloodEligible : FourNeighbours(c) \cap S # {}}
    IN IF T = S THEN S ELSE FloodClosure(T)

\* the eligible coordinates joined to the seed by a 4-connected path
FloodReachable == FloodClosure({<<flood.startX, flood.startY>>} \cap FloodEligible)

\* C11: floodFill returns a count of at most the cluster limit and adds
\* at most that many coordinates to visited.
FloodCountCapped ==
    pc = "returned" =>
        /\ flood.count <= ClusterLimit
        /\ Cardinality(FloodAdded) <= ClusterLimit

\* C19: every coordinate floodFill adds is inside the raster, darker than
\* 60, new to visited and joined to the seed by a 4-connected path of
\* such pixels; the count is the number of coordinates added, and it is 0
\* for a seed that is out of bounds, already visited or not darker than 60.
FloodAddsRegionOnly ==
    pc \in {"flood", "returned"} =>
        /\ FloodAdded \subseteq FloodReachable
        /\ flood.count = Cardinality(FloodAdded)
        /\ <<flood.startX, flood.startY>> \notin FloodEligible => flood.count = 0

\* a region of several pixels was filled around a pixel visited before
FloodRegionWitness ==
    /\ pc = "returned"
    /\ flood.count >= 3
    /\ flood.visited0 # {}
    /\ FloodAdded = FloodReachable
    /\ \E i \in Pix : raster[i] = DIM

\* C20: floodFill terminates: the stack becomes empty and the call returns.
FloodTerminates == <>(pc = "returned")

\* the call has returned after filling a region
FloodTerminatesWitness ==
    /\ pc = "returned"
    /\ flood.stack = <<>>
    /\ flood.count >= 2

(***************************************************************************)
(* The ratio mappings of countBlackSpots and detectCuts on their counters. *)
(***************************************************************************)
\* the two counters at the end of a scan: num of den pixels (or pairs)
Tallies == {[NoTally EXCEPT !.num = n, !.den = d] :
               n \in 0 .. MaxCount, d \in 0 .. MaxCount} \cap
           {t \in [num : 0 .. MaxCount, den : 0 .. MaxCount, spotCount : {0},
                   cuts : {0}, sprout : {Zero}, days : {0},
                   lesions : {0}] : t.num <= t.den}

\* the record of a raster without subject pixels, num of its den pixels green
SproutRecord(ratio) == MakeRecord(0, 1, 3, 0, ratio)

\* countBlackSpots from line 161, detectCuts from line 446, detectSprouting
\* from line 510 and the shelf life of the record with that sprouting ratio
TallyStep ==
    /\ pc = "tally"
    /\ tally' = [tally EXCEPT
                    !.spotCount = blackSpots(tally.num, tally.den),
                    !.cuts = cutsFlag(tally.num, tally.den),
                    !.sprout = sproutRatio(tally.num, tally.den),
                    !.days = calculateShelfLife(
                                SproutRecord(sproutRatio(tally.num, tally.den)))]
    /\ pc' = "tallied"
    /\ UNCHANGED <<raster, thisFeatures, features, shelfLife, grade,
                   remembered, pixel, isOnion, flood, app>>

InitCounts ==
    /\ thisFeatures = {}
    /\ features = NoRecord
    /\ shelfLife = 0
    /\ grade = "none"
    /\ remembered = {}
    /\ pixel = NoPixel
    /\ isOnion = FALSE
    /\ raster = Uniform(BLACK)
    /\ flood = NoFlood
    /\ app = NoApp
    /\ pc = "tally"
    /\ tally \in Tallies

NextCounts == TallyStep

SpecCounts == InitCounts /\ [][NextCounts]_vars

\* detectCuts on rasters and on counters
InitCuts == Init \/ InitCounts

NextCuts ==
    \/ extractFeatures(raster) /\ UNCHANGED remembered
    \/ TallyStep

SpecCuts == InitCuts /\ [][NextCuts]_vars

(***************************************************************************)
(* detectCuts: which comparisons are counted, and the 3% threshold.        *)
(***************************************************************************)
\* the horizontally adjacent subject-subject pairs, named by their left pixel
SubjectPairs(data) ==
    {i \in Pix : XOf(i) + 1 < Width /\ Subject(data, i) /\ Subject(data, i + 1)}

\* a pair whose left pixel is in the first row, the last row or the first column
BorderPair(i) == YOf(i) = 0 \/ YOf(i) = Height - 1 \/ XOf(i) = 0

\* a pair whose two brightnesses differ by more than 60
SharpPair(data, i) ==
    \/ Red(data, i) + Green(data, i) + Blue(data, i)
         - (Red(data, i + 1) + Green(data, i + 1) + Blue(data, i + 1)) > 180
    \/ Red(data, i + 1) + Green(data, i + 1) + Blue(data, i + 1)
         - (Red(data, i) + Green(data, i) + Blue(data, i)) > 180

\* row y is made of subject pixels only, every adjacent two of them sharp
AlternatingRow(data, y) ==
    \A x \in 0 .. Width - 1 :
        /\ Subject(data, y * Width + x)
        /\ x + 1 < Width => SharpPair(data, y * Width + x)

\* C12 as stated: totalEdgeChecks is the number of horizontally adjacent
\* subject-subject pairs of the whole raster, first row, last row and first
\* column included
CutsCountWholeRaster ==
    Extracted => Cardinality(EdgeChecks(raster)) = Cardinality(SubjectPairs(raster))

\* C12 amended: detectCuts counts exactly the horizontally adjacent
\* subject-subject pairs whose left pixel is in rows 1..height-2 and columns
\* 1..width-2; pairs that start in the first row, the last row or the first
\* column are not counted, pairs that end in the last column are
CutsCountInterior ==
    Extracted =>
        /\ EdgeChecks(raster) = {i \in SubjectPairs(raster) : ~BorderPair(i)}
        /\ features.has_cuts = 1 <=>
            100 * Cardinality({i \in SubjectPairs(raster) :
                                  ~BorderPair(i) /\ SharpPair(raster, i)})
                > 3 * Cardinality({i \in SubjectPairs(raster) : ~BorderPair(i)})

\* a scan in which a sharp pair of the first row went uncounted while a pair
\* ending in the last column was counted
CutsCountWitness ==
    /\ Extracted
    /\ features.has_cuts = 0
    /\ \E i \in SubjectPairs(raster) : YOf(i) = 0 /\ SharpPair(raster, i)
    /\ \E i \in SubjectPairs(raster) : ~BorderPair(i) /\ XOf(i) + 1 = Width - 1

(***************************************************************************)
(* countBlackSpots: the three bands of the dark ratio.                     *)
(***************************************************************************)
Tallied == pc = "tallied"

InitSprout == Init \/ InitCounts

NextSprout ==
    \/ extractFeatures(raster) /\ UNCHANGED remembered
    \/ ShelfLifeStep
    \/ GradeStep
    \/ TallyStep

SpecSprout == InitSprout /\ [][NextSprout]_vars

\* the pixels with g > r+35, g > b+35 and g >= 100, subject or not
GreenSet(data) ==
    {i \in Pix : /\ data[i][2] > data[i][1] + 35
                 /\ data[i][2] > data[i][3] + 35
                 /\ data[i][2] >= 100}

\* C13: detectSprouting tests every pixel, subject or not, and returns
\* greenPixelCount/totalPixelCount; when exactly 10% of the pixels are
\* (60,140,60) and the rest black the ratio is 0.10 and calculateShelfLife
\* takes the sprouting penalty of 10 (22 days without it, 12 with it); the
\* same penalty applies on any green-and-black raster with more than 5% green
SproutingRatio ==
    /\ Extracted =>
          features.sprouting_detected
              = Ratio(Cardinality(GreenSet(raster)), Cardinality(Pix))
    /\ (Calculated /\ (\A i \in Pix : raster[i] \in {GREEN, BLACK})
                   /\ 20 * Cardinality(GreenSet(raster)) > Cardinality(Pix))
          => shelfLife = 22 - 10
    /\ (Tallied /\ tally.den > 0 /\ 10 * tally.num = tally.den) =>
          /\ tally.sprout = [num |-> 1, den |-> 10]
          /\ tally.days = 22 - 10

\* a green pixel that is not a subject pixel was counted and cost 10 days,
\* or a scan ended with exactly 10 green pixels of 100
SproutingWitness ==
    \/ /\ Calculated
       /\ \E i \in Pix : raster[i] = GREEN /\ ~Subject(raster, i)
       /\ \A i \in Pix : raster[i] \in {GREEN, BLACK}
       /\ GtRat(features.sprouting_detected, 5, 100)
       /\ shelfLife = 12
    \/ /\ Tallied
       /\ tally.num = 10
       /\ tally.den = 100
       /\ tally.sprout = [num |-> 1, den |-> 10]
       /\ tally.days = 12

(***************************************************************************)
(* analyzeSkinCondition on the uniform golden raster.                      *)
(***************************************************************************)
\* C14 as stated: on the uniform golden raster (150,120,60) every pixel is a
\* subject pixel and skin_condition_score is 1 or 2
GoldenSkinOneOrTwo ==
    (Extracted /\ raster = Uniform(GOLDEN)) =>
        /\ SubjectPixels(raster) = Pix
        /\ features.skin_condition_score \in {1, 2}

\* C14 amended: on the uniform golden raster every pixel is a subject pixel,
\* no pixel is good skin (brightness 110 is not above 120) and none is poor
\* skin, and skin_condition_score is 3, the score of rule 3
GoldenSkinThree ==
    (Extracted /\ raster = Uniform(GOLDEN)) =>
        /\ SubjectPixels(raster) = Pix
        /\ \A i \in Pix : raster[i][1] + raster[i][2] + raster[i][3] = 3 * 110
        /\ features.skin_condition_score = 3

\* the uniform golden raster was scanned
GoldenSkinWitness ==
    /\ Extracted
    /\ raster = Uniform(GOLDEN)
    /\ SubjectPixels(raster) = Pix
    /\ features.skin_condition_score = 3

(***************************************************************************)
(* analyzeSurfaceTexture.                                                  *)
(***************************************************************************)
\* three times the brightness of the pixel at column x, row y
BrightAt3(data, x, y) ==
    data[y * Width + x][1] + data[y * Width + x][2] + data[y * Width + x][3]

\* the subject pixels not on the outer 1-pixel border, as <<x, y>>
Qualifying(data) ==
    {c \in (1 .. Width - 2) \X (1 .. Height - 2) : Subject(data, c[2] * Width + c[1])}

FourOrthogonal(c) ==
    {<<c[1] - 1, c[2]>>, <<c[1] + 1, c[2]>>, <<c[1], c[2] - 1>>, <<c[1], c[2] + 1>>}

\* twelve times the sum, over the qualifying pixels, of the mean absolute
\* brightness difference to the four orthogonal neighbours
TotalDifference12(data) ==
    LET cells == (0 .. Width - 1) \X (0 .. Height - 1)
        diff(c, n) == Abs(BrightAt3(data, c[1], c[2]) - BrightAt3(data, n[1], n[2]))
        RECURSIVE Over(_, _)
        Over(S, f) == IF S = {} THEN 0
                      ELSE LET c == CHOOSE c \in S : TRUE
                           IN f[c] + Over(S \ {c}, f)
        perPixel == [c \in cells |->
                        Over(FourOrthogonal(c) \cap cells,
                             [n \in cells |-> diff(c, n)])]
    IN Over(Qualifying(data), perPixel)

Upper == <<"A", "B", "C", "D", "E", "F", "G", "H", "I", "J", "K", "L", "M",
           "N", "O", "P", "Q", "R", "S", "T", "U", "V", "W", "X", "Y", "Z">>

Lower == <<"a", "b", "c", "d", "e", "f", "g", "h", "i", "j", "k", "l", "m",
           "n", "o", "p", "q", "r", "s", "t", "u", "v", "w", "x", "y", "z">>

\* className.toLowerCase(), a string being the sequence of its characters
toLowerCase(str) ==
    [i \in 1 .. Len(str) |->
        IF \E k \in 1 .. Len(Upper) : Upper[k] = str[i]
        THEN Lower[CHOOSE k \in 1 .. Len(Upper) : Upper[k] = str[i]]
        ELSE str[i]]

\* str.includes(sub)
Includes(str, sub) ==
    \E i \in 0 .. Len(str) - Len(sub) : SubSeq(str, i + 1, i + Len(sub)) = sub

\* the class names a model may carry
ClassNames ==
    {<<"0">>, <<"5", "-", "1", "0">>, <<"1", "5", "-", "1", "9">>,
     <<"2", "9", "-", "3", "7">>, <<"1", "0", " ", "O", "R", " ", "5">>,
     <<"1", "9", "/", "1", "5">>, <<"3", "7", "2", "9">>,
     <<"0", " ", "D", "a", "y", "s">>, <<"F", "R", "E", "S", "H">>,
     <<"2", "9", "-", "3", "7", " ", "D", "A", "Y", "S">>}

Probs == 0 .. MaxProb

\* what model.predict returns: no entry, or entries alike but for one
Predictions ==
    {<<>>} \cup
    {[i \in 1 .. n |-> IF i = k THEN [className |-> c, probability |-> p]
                       ELSE [className |-> <<"X">>, probability |-> q]] :
        n \in 1 .. MaxClasses, k \in 1 .. MaxClasses,
        c \in ClassNames, p \in Probs, q \in Probs}

\* lines 186-196: the entry of highest probability, the first of them, none
\* when no probability exceeds 0; i counts from 1, predictedIndex from 0
RECURSIVE findMax(_, _, _)
findMax(prediction, i, best) ==
    IF i > Len(prediction) THEN best
    ELSE IF prediction[i].probability > best.maxProb
    THEN findMax(prediction, i + 1,
                 [maxProb |-> prediction[i].probability,
                  predictedClass |-> toLowerCase(prediction[i].className),
                  predictedIndex |-> i - 1])
    ELSE findMax(prediction, i + 1, best)

classRanges == << <<0, 0>>, <<5, 10>>, <<15, 19>>, <<29, 37>> >>

\* Math.floor(Math.random() * n) for Math.random() = k / RandomSteps
randomBelow(k, n) == Floor(k * n, RandomSteps)

\* lines 203-235: the days of the predicted class
modelDays(predictedClass, predictedIndex, k) ==
    LET has(sub) == Includes(predictedClass, sub)
    IN IF predictedClass = <<"0">> THEN 0
       ELSE IF has(<<"5", "-", "1", "0">>) \/ (has(<<"5">>) /\ has(<<"1", "0">>))
       THEN 5 + randomBelow(k, 6)
       ELSE IF has(<<"1", "5", "-", "1", "9">>)
               \/ (has(<<"1", "5">>) /\ has(<<"1", "9">>))
       THEN 15 + randomBelow(k, 5)
       ELSE IF has(<<"2", "9", "-", "3", "7">>)
               \/ (has(<<"2", "9">>) /\ has(<<"3", "7">>))
       THEN 29 + randomBelow(k, 9)
       ELSE IF predictedIndex < Len(classRanges)
       THEN LET min == classRanges[predictedIndex + 1][1]
                max == classRanges[predictedIndex + 1][2]
            IN IF min = max THEN min ELSE min + randomBelow(k, max - min + 1)
       ELSE 15

\* lines 260-262: avg_brightness >= 60 && <= 220 && avg_saturation >= 0.12
isOnionDetected(f) ==
    /\ ~LtRat(f.color_analysis.avg_brightness, 60, 1)
    /\ ~GtRat(f.color_analysis.avg_brightness, 220, 1)
    /\ ~LtRat(f.color_analysis.avg_saturation, 12, 100)

\* lines 290-302: the class of the computed shelf life
demoClass(computed, f) ==
    IF computed <= 0 \/ (f.visible_damage_flag # 0 /\ f.black_spots_count > 15)
    THEN <<0, 0>>
    ELSE IF computed <= 10 THEN <<5, 10>>
    ELSE IF computed <= 19 THEN <<15, 19>>
    ELSE <<29, 37>>

demoDaysWideRange(classRange, timestamp) ==
    IF classRange[1] = classRange[2] THEN 0
    ELSE classRange[1] + (Floor(timestamp, 1000) % (classRange[2] - classRange[1] + 2))

\* lines 305-314: the day within the class, from Date.now() in milliseconds
demoDays(classRange, timestamp) ==
    LET minDays == classRange[1]
        maxDays == classRange[2]
    IN IF minDays = maxDays THEN 0
       ELSE LET hashNum == Floor(timestamp, 1000)
                rangeSize == maxDays - minDays + 1
            IN minDays + (hashNum % rangeSize)

\* the start of best in findMax
NoBest == [maxProb |-> 0, predictedClass |-> <<>>, predictedIndex |-> 0]

\* labelContainer.innerHTML = html: a TypeError while labelContainer, which
\* only line 70 assigns, is undefined
setLabel(a, html) ==
    IF a.labelContainer THEN [a EXCEPT !.label = html]
    ELSE [a EXCEPT !.threw = TRUE]

\* lines 511-571: displayShelfLifePrediction(days, confidence, features),
\* which ends in displayFeatures
displayShelfLifePrediction(a, days) ==
    LET entered == [a EXCEPT !.days = days, !.shown = "days",
                             !.called = a.called \cup {"displayShelfLifePrediction"}]
    IN IF a.labelContainer
       THEN [entered EXCEPT !.label = "days", !.featuresContainer = "block"]
       ELSE [entered EXCEPT !.threw = TRUE]

\* lines 165-174: the path predict takes: 1 simulatePrediction, 2 the
\* 'Model not loaded' error, 3 model.predict
predictPath(a) == IF a.demoMode THEN 1 ELSE IF ~a.model THEN 2 ELSE 3

\* predict(imageElement) with window.demoMode unset
predict ==
    /\ pc = "start"
    /\ predictPath(app) # 1
    /\ \E prediction \in Predictions, k \in 0 .. RandomSteps - 1 :
          IF predictPath(app) = 2
          THEN app' = [app EXCEPT !.shown = "error", !.notLoaded = TRUE]
          ELSE IF Len(prediction) = 0
          THEN app' = setLabel([app EXCEPT !.shown = "error"], "error")
          ELSE LET best == findMax(prediction, 1, NoBest)
                   picked == [app EXCEPT
                                 !.predictedClass = best.predictedClass,
                                 !.predictedIndex = best.predictedIndex]
                   shown == displayShelfLifePrediction(picked,
                                modelDays(best.predictedClass,
                                          best.predictedIndex, k))
               IN app' = IF shown.threw
                         THEN setLabel([shown EXCEPT !.threw = FALSE], "error")
                         ELSE shown
    /\ pc' = "predicted"
    /\ UNCHANGED <<raster, thisFeatures, features, shelfLife, grade,
                   remembered, pixel, isOnion, flood, tally>>

\* simulatePrediction(imageElement) after its call of extractFeatures
simulatePrediction ==
    /\ pc = "extracted"
    /\ app.demoMode
    /\ IF ~isOnionDetected(features)
       THEN app' = LET told == setLabel(app, "noOnion")
                   IN IF told.threw THEN told
                      ELSE [told EXCEPT !.shown = "noOnion",
                                        !.featuresContainer = "none"]
       ELSE \E t \in 0 .. MaxClock :
               LET computed == calculateShelfLife(features)
                   classRange == demoClass(computed, features)
                   calculated == [app EXCEPT
                                     !.computed = computed,
                                     !.classRange = classRange,
                                     !.called = app.called \cup {"calculateShelfLife"}]
               IN app' = displayShelfLifePrediction(calculated,
                                                    demoDays(classRange, 500 * t))
    /\ pc' = "predicted"
    /\ UNCHANGED <<raster, thisFeatures, features, shelfLife, grade,
                   remembered, pixel, isOnion, flood, tally>>

\* the records extractFeatures may return for an image with onion colours
DemoRecords ==
    {[f EXCEPT !.color_analysis = [avg_brightness |-> Ratio(110, 1),
                                   avg_saturation |-> Ratio(3, 5)]] :
        f \in FeatureRecords}

\* the page with a model, or in demo mode with an image or with
\* the record extractFeatures returned for it; in demo mode the model and the
\* label container are both unset, or both set when a second loadModel call
\* fell back to demo mode after a first one had loaded the model
InitPredict ==
    /\ shelfLife = 0
    /\ grade = "none"
    /\ remembered = {}
    /\ pixel = NoPixel
    /\ isOnion = FALSE
    /\ flood = NoFlood
    /\ tally = NoTally
    /\ \/ /\ pc = "start"
          /\ raster = Uniform(BLACK)
          /\ features = NoRecord
          /\ thisFeatures = {}
          /\ app = [NoApp EXCEPT !.model = TRUE, !.labelContainer = TRUE]
       \/ /\ pc = "start"
          /\ raster \in Rasters
          /\ features = NoRecord
          /\ thisFeatures = {}
          /\ app \in {[NoApp EXCEPT !.demoMode = TRUE, !.model = m,
                                     !.labelContainer = m] : m \in BOOLEAN}
       \/ /\ pc = "extracted"
          /\ raster = Uniform(GOLDEN)
          /\ features \in DemoRecords
          /\ thisFeatures = {features}
          /\ app \in {[NoApp EXCEPT !.demoMode = TRUE, !.model = m,
                                     !.labelContainer = m] : m \in BOOLEAN}

NextPredict ==
    \/ predict
    \/ app.demoMode /\ extractFeatures(raster) /\ UNCHANGED remembered
    \/ simulatePrediction

SpecPredict == InitPredict /\ [][NextPredict]_vars

ClassDays == {0} \cup (5 .. 10) \cup (15 .. 19) \cup (29 .. 37)

\* C15: every days value displayed, by predict for any class name and index
\* or by simulatePrediction for any feature record and clock value, is 0 or in
\* 5..10, 15..19 or 29..37; in demo mode the class is 0 when the computed
\* shelf life is <= 0 or the damage flag is set with more than 15 black
\* spots, else 5-10 when computed <= 10, else 15-19 when computed <= 19, else
\* 29-37
DaysInClasses ==
    app.shown = "days" =>
        /\ app.days \in ClassDays
        /\ app.demoMode =>
              IF app.computed <= 0
                 \/ (features.visible_damage_flag = 1 /\ features.black_spots_count > 15)
              THEN app.days = 0
              ELSE IF app.computed <= 10 THEN app.days \in 5 .. 10
              ELSE IF app.computed <= 19 THEN app.days \in 15 .. 19
              ELSE app.days \in 29 .. 37

\* demo mode showed 0 days for a damaged onion with more than 15 spots whose
\* computed shelf life was positive
DaysInClassesWitness ==
    /\ app.shown = "days"
    /\ app.demoMode
    /\ app.computed > 0
    /\ features.visible_damage_flag = 1
    /\ features.black_spots_count > 15
    /\ app.days = 0

(***************************************************************************)
(* simulatePrediction on an image without onion colours.                   *)
(***************************************************************************)
\* avg_brightness < 60, avg_brightness > 220 or avg_saturation < 0.12
NoOnionColours(f) ==
    \/ f.color_analysis.avg_brightness.num < 60 * f.color_analysis.avg_brightness.den
    \/ f.color_analysis.avg_brightness.num > 220 * f.color_analysis.avg_brightness.den
    \/ 100 * f.color_analysis.avg_saturation.num < 12 * f.color_analysis.avg_saturation.den

\* C21: in demo mode, when the extracted record has avg_brightness < 60,
\* avg_brightness > 220 or avg_saturation < 0.12, as for every raster without
\* subject pixels, simulatePrediction shows 'No Onion Detected', hides the
\* features container and calls neither calculateShelfLife nor
\* displayShelfLifePrediction
NoOnionShown ==
    (pc = "predicted" /\ app.demoMode
        /\ (NoOnionColours(features) \/ SubjectPixels(raster) = {})) =>
        /\ app.label = "noOnion"
        /\ app.featuresContainer = "none"
        /\ app.called \cap {"calculateShelfLife", "displayShelfLifePrediction"} = {}
        /\ app.shown # "days"

(***************************************************************************)
(* app.js: loadModel, initWebcam, stopWebcam, loop and the uploads.        *)
(***************************************************************************)
\* what loadModel meets: the files are missing, the fetch fails, the model
\* loads, or loading throws
LoadOutcomes == {"missing", "fetchError", "loaded", "loadError"}

loadModelSilentFailure(a, outcome) ==
    IF outcome = "loaded"
    THEN [a EXCEPT !.model = TRUE, !.labelContainer = TRUE, !.label = "initial",
                   !.returned = a.returned \cup {TRUE}]
    ELSE IF outcome = "fetchError"
    THEN [a EXCEPT !.returned = a.returned \cup {TRUE}, !.failed = TRUE]
    ELSE [a EXCEPT !.demoMode = TRUE, !.returned = a.returned \cup {TRUE},
                   !.failed = TRUE]

\* lines 37-85: loadModel(), with the value it returns added to returned;
\* failed records that a call did not load the model
loadModel(a, outcome) ==
    IF outcome = "loaded"
    THEN [a EXCEPT !.model = TRUE, !.labelContainer = TRUE, !.label = "initial",
                   !.returned = a.returned \cup {TRUE}]
    ELSE [a EXCEPT !.demoMode = TRUE, !.returned = a.returned \cup {TRUE},
                   !.failed = TRUE]

\* the loop invocations alive: animation frames pending and awaits of predict
Chains(a) == a.frames + a.awaiting[1] + a.awaiting[2] + a.awaiting[3]

\* the variables of the feature extractor, which the page actions leave alone
PageOnly ==
    /\ pc = "page"
    /\ UNCHANGED <<pc, raster, thisFeatures, features, shelfLife, grade,
                   remembered, pixel, isOnion, flood, tally>>

\* the initWebcam calls in progress: awaiting loadModel, awaiting the setup
Starting(a) == a.starting[1] + a.starting[2]

\* lines 88-94: initWebcam() up to its await of loadModel or of webcam.setup,
\* called by the start button unless disabled; line 99 assigns webcam before
\* the setup
initWebcam ==
    /\ PageOnly
    /\ ~app.startDisabled
    /\ Starting(app) < MaxStarts
    /\ app' = IF ~app.model
              THEN [app EXCEPT !.starting[1] = app.starting[1] + 1,
                               !.quiet = FALSE]
              ELSE [app EXCEPT !.starting[2] = app.starting[2] + 1,
                               !.webcam = TRUE, !.quiet = FALSE]

\* lines 92-99: loadModel returns to initWebcam
initWebcamLoaded ==
    /\ PageOnly
    /\ app.starting[1] > 0
    /\ \E outcome \in LoadOutcomes :
          LET loaded == loadModel(app, outcome)
          IN app' = IF TRUE \in loaded.returned
                    THEN [loaded EXCEPT !.starting[1] = app.starting[1] - 1,
                                        !.starting[2] = app.starting[2] + 1,
                                        !.webcam = TRUE]
                    ELSE [loaded EXCEPT !.starting[1] = app.starting[1] - 1]

\* lines 100-123: the webcam is set up, the loop started and the start button
\* disabled, or the setup throws and the error is shown
initWebcamSetup ==
    /\ PageOnly
    /\ app.starting[2] > 0
    /\ \E granted \in BOOLEAN :
          IF granted
          THEN /\ Chains(app) < MaxChains
               /\ app' = [app EXCEPT !.isWebcamRunning = TRUE,
                                     !.frames = app.frames + 1,
                                     !.startDisabled = TRUE,
                                     !.starting[2] = app.starting[2] - 1]
          ELSE app' = [app EXCEPT !.starting[2] = app.starting[2] - 1]

stopWebcamKeepsRunning ==
    /\ PageOnly
    /\ app' = IF app.webcam
              THEN [app EXCEPT !.startDisabled = FALSE,
                               !.quiet = Starting(app) = 0,
                               !.lateFrame = FALSE, !.lateWork = FALSE]
              ELSE app

\* lines 127-143: stopWebcam(); quiet records that no initWebcam call was in
\* progress, lateWork a webcam.update and lateFrame a requestAnimationFrame
\* made while quiet
stopWebcam ==
    /\ PageOnly
    /\ app' = IF app.webcam
              THEN [app EXCEPT !.isWebcamRunning = FALSE,
                               !.startDisabled = FALSE,
                               !.quiet = Starting(app) = 0,
                               !.lateFrame = FALSE, !.lateWork = FALSE]
              ELSE app

\* lines 146-160: one call of loop() by the animation frame, up to its end or
\* to its await of predict; updates counts the webcam.update calls since the
\* loop last invoked predict (31 stands for more than 30) and gap keeps that
\* count at the latest invocation
loop ==
    /\ PageOnly
    /\ app.frames > 0
    /\ IF app.isWebcamRunning /\ app.webcam
       THEN /\ app.predictionStabilityCounter < MaxCounter
            /\ LET counter == app.predictionStabilityCounter + 1
                   updates == Min2(app.updates + 1, 31)
                   path == predictPath(app)
               IN app' = IF counter >= 30
                         THEN [app EXCEPT
                                  !.predictionStabilityCounter = counter,
                                  !.frames = app.frames - 1,
                                  !.awaiting[path] = app.awaiting[path] + 1,
                                  !.notLoaded = app.notLoaded \/ path = 2,
                                  !.gap = updates,
                                  !.updates = 0,
                                  !.lateWork = app.lateWork \/ app.quiet]
                         ELSE [app EXCEPT
                                  !.predictionStabilityCounter = counter,
                                  !.updates = updates,
                                  !.lateWork = app.lateWork \/ app.quiet,
                                  !.lateFrame = app.lateFrame \/ app.quiet]
       ELSE app' = [app EXCEPT !.frames = app.frames - 1]

\* lines 154-158: the predict awaited by a loop invocation settles; it rejects
\* when a display statement finds labelContainer undefined (lines 266, 546,
\* and 245 in the catch block), and the invocation then ends at once
predictReturns ==
    /\ PageOnly
    /\ \E path \in 1 .. 3 :
          /\ app.awaiting[path] > 0
          /\ app' = IF path # 2 /\ ~app.labelContainer
                    THEN [app EXCEPT !.awaiting[path] = app.awaiting[path] - 1]
                    ELSE [app EXCEPT !.awaiting[path] = app.awaiting[path] - 1,
                                     !.predictionStabilityCounter = 0,
                                     !.frames = app.frames + 1,
                                     !.lateFrame = app.lateFrame \/ app.quiet]

\* lines 753-759: processUploadedFile(file) up to its await of loadModel
processUploadedFile ==
    /\ PageOnly
    /\ app.uploading = "idle"
    /\ app' = [app EXCEPT !.uploading = IF ~app.model THEN "loadModel" ELSE "image"]

\* lines 757-758: loadModel returns to processUploadedFile
processUploadedFileLoaded ==
    /\ PageOnly
    /\ app.uploading = "loadModel"
    /\ \E outcome \in LoadOutcomes :
          LET loaded == loadModel(app, outcome)
          IN app' = [loaded EXCEPT
                        !.uploading = IF TRUE \in loaded.returned THEN "image"
                                      ELSE "idle"]

\* lines 764-786: the image loads and predict(canvas) is called, or it fails
imageLoaded ==
    /\ PageOnly
    /\ app.uploading = "image"
    /\ \E loads \in BOOLEAN :
          app' = [app EXCEPT !.uploading = "idle",
                             !.notLoaded = app.notLoaded
                                              \/ (loads /\ predictPath(app) = 2)]

\* the page after DOMContentLoaded
InitPage ==
    /\ Constructed
    /\ flood = NoFlood
    /\ raster = Uniform(BLACK)
    /\ pc = "page"

NextPage ==
    \/ initWebcam
    \/ initWebcamLoaded
    \/ initWebcamSetup
    \/ stopWebcam
    \/ loop
    \/ predictReturns
    \/ processUploadedFile
    \/ processUploadedFileLoaded
    \/ imageLoaded

SpecPage == InitPage /\ [][NextPage]_vars

(***************************************************************************)
(* The webcam loop.                                                        *)
(***************************************************************************)
\* C22: while the webcam loop runs predict is invoked once per 30
\* webcam.update calls, and predictionStabilityCounter, incremented once per
\* frame and reset after predict, stays within 0..30
PredictEveryThirtyFrames ==
    /\ app.predictionStabilityCounter \in 0 .. 30
    /\ app.gap = 30

(***************************************************************************)
(* The loop after stopWebcam.                                              *)
(***************************************************************************)
\* the loop invocations that await a predict
Awaited(a) == a.awaiting[1] + a.awaiting[2] + a.awaiting[3]

\* a step without webcam.update and without a predict started by the loop
NoLoopWork ==
    /\ app'.predictionStabilityCounter <= app.predictionStabilityCounter
    /\ \A path \in 1 .. 3 : app'.awaiting[path] <= app.awaiting[path]

LoadModelFallsBack ==
    /\ app.returned \subseteq {TRUE}
    /\ app.failed => app.demoMode
    /\ app.returned # {} => (app.model \/ app.demoMode)
    /\ ~app.notLoaded

\* the loop awaits a predict made in demo mode after loadModel had failed to
\* load the model and returned true
LoadModelWitness ==
    /\ app.returned = {TRUE}
    /\ app.failed
    /\ app.demoMode
    /\ ~app.model
    /\ app.awaiting[1] = 1

(***************************************************************************)
(* detectLesions on the colours that can pass its brightness test.         *)
(***************************************************************************)
\* a colour of 0..255^3 whose brightness (r + g + b) / 3 is below 70
DarkPixel(r, g, b) == [r |-> r, g |-> g, b |-> b, allowDark |-> FALSE]

\* one pass of the loop body of detectLesions, lines 461-479, on one pixel:
\* the subject test and then the lesion test
LesionStep ==
    /\ pc = "lesion"
    /\ isOnion' = isOnionPixel(pixel.r, pixel.g, pixel.b, FALSE)
    /\ tally' = [tally EXCEPT !.lesions =
                    IF /\ Subject(<<<<pixel.r, pixel.g, pixel.b>>>>, 1)
                       /\ Lesion(<<<<pixel.r, pixel.g, pixel.b>>>>, 1)
                    THEN 1 ELSE 0]
    /\ pc' = "tested"
    /\ UNCHANGED <<raster, thisFeatures, features, shelfLife, grade,
                   remembered, pixel, flood, app>>

InitLesion ==
    /\ tally = NoTally
    /\ app = NoApp
    /\ thisFeatures = {}
    /\ features = NoRecord
    /\ shelfLife = 0
    /\ grade = "none"
    /\ remembered = {}
    /\ isOnion = FALSE
    /\ flood = NoFlood
    /\ raster = Uniform(BLACK)
    /\ pc = "lesion"
    /\ \E r \in 0 .. 209 : \E g \in 0 .. 209 - r : \E b \in 0 .. 209 - r - g :
          pixel = DarkPixel(r, g, b)

InitLesions == Init \/ InitLesion

NextLesions ==
    \/ extractFeatures(raster) /\ UNCHANGED remembered
    \/ LesionStep

SpecLesions == InitLesions /\ [][NextLesions]_vars

\* C25: no colour that isOnionPixel accepts in its default mode has
\* brightness < 70 and saturation < 0.25, so no subject pixel is counted as
\* a lesion pixel and detectLesions returns 0 for every raster
NoSubjectLesion ==
    /\ pc = "tested" =>
          /\ tally.lesions = 0
          /\ ~(/\ isOnion
                /\ pixel.r + pixel.g + pixel.b < 210
                /\ 4 * (Max3(pixel.r, pixel.g, pixel.b)
                          - Min3(pixel.r, pixel.g, pixel.b))
                      < Max3(pixel.r, pixel.g, pixel.b))
    /\ Extracted => features.has_lesions = 0

\* the accepted colour nearest to the lesion condition, (83, 62, 62), with
\* brightness 69 and saturation 21/83, has been tested and is not a lesion
NoSubjectLesionWitness ==
    /\ pc = "tested"
    /\ pixel.r = 83 /\ pixel.g = 62 /\ pixel.b = 62
    /\ isOnion
    /\ tally.lesions = 0

(***************************************************************************)
(* estimateDimensions: the scale factor pins the larger side to 75 mm.     *)
(***************************************************************************)
\* the subject bounding box has positive width or positive height: two
\* subject pixels differ in their column or in their row
PositiveBox(data) ==
    \E i, j \in SubjectPixels(data) : XOf(i) # XOf(j) \/ YOf(i) # YOf(j)

\* a finite dimension of at most 75 mm, in tenths
AtMost75(d) == d.kind = "finite" /\ d.tenths <= 750

\* C26: when the subject bounding box has positive width or height,
\* diameter_mm is 75, size_class is Large, length_mm is at most 75 and
\* height_mm equals width_mm, at most 75; and on no raster is the size class
\* Small or Medium
LargerSidePinned ==
    Extracted =>
        /\ PositiveBox(raster) =>
              /\ features.dimensions.diameter_mm = [kind |-> "finite", tenths |-> 750]
              /\ features.dimensions.size_class = "Large"
              /\ AtMost75(features.dimensions.length_mm)
              /\ AtMost75(features.dimensions.width_mm)
              /\ features.dimensions.height_mm = features.dimensions.width_mm
        /\ features.dimensions.size_class \notin {"Small", "Medium"}

\* a bounding box two columns wide and one row high has been measured: the
\* width is 75 mm and the length 37.5 mm
LargerSidePinnedWitness ==
    /\ Extracted
    /\ PositiveBox(raster)
    /\ features.dimensions.width_mm = [kind |-> "finite", tenths |-> 750]
    /\ features.dimensions.length_mm = [kind |-> "finite", tenths |-> 375]
    /\ features.dimensions.size_class = "Large"

(***************************************************************************)
(* calculateShelfLife: the largest result, and the order it keeps.         *)
(***************************************************************************)
\* the record is within the documented ranges
Documented(f) ==
    /\ f.black_spots_count \in 0 .. 21
    /\ f.surface_texture_score \in 1 .. 4
    /\ f.skin_condition_score \in 1 .. 5
    /\ f.visible_damage_flag \in {0, 1}
    /\ f.sprouting_detected.num >= 0
    /\ f.sprouting_detected.num <= f.sprouting_detected.den

\* C27: for a record within the documented ranges calculateShelfLife
\* returns at most 30, so none of 31..37 is returned, and it returns 30
\* only when no penalty applies: no spot, texture 1, skin 1, no damage and
\* sprouting not above 0.02
ShelfLifeAtMostThirty ==
    (pc = "calculated" /\ Documented(features)) =>
        /\ shelfLife <= 30
        /\ shelfLife \notin 31 .. 37
        /\ shelfLife = 30 =>
              /\ features.black_spots_count = 0
              /\ features.surface_texture_score = 1
              /\ features.skin_condition_score = 1
              /\ features.visible_damage_flag = 0
              /\ 100 * features.sprouting_detected.num
                    <= 2 * features.sprouting_detected.den

\* the record without any penalty, sprouting exactly 0.02, gives 30 days
ShelfLifeThirtyWitness ==
    /\ pc = "calculated"
    /\ features = MakeRecord(0, 1, 1, 0, Ratio(2, 100))
    /\ shelfLife = 30

(***************************************************************************)
(* countBlackSpots: the order of the counts.                               *)
(***************************************************************************)
\* C28: among scans with the same number of subject pixels, one with more
\* dark subject pixels never gets a smaller spot count, also across the band
\* boundaries at 0.02 and 0.08
SpotCountMonotone ==
    Tallied /\ tally.den > 0 =>
        \A more \in tally.num .. tally.den :
            blackSpots(more, tally.den) >= tally.spotCount

\* 7 dark pixels of 100 end the second band with 7 spots, and 8 of 100 begin
\* the third with 8
SpotCountMonotoneWitness ==
    /\ Tallied
    /\ tally.num = 7 /\ tally.den = 100
    /\ tally.spotCount = 7
    /\ blackSpots(8, 100) = 8

\* f with one of the five inputs of calculateShelfLife raised to a value of
\* the documented ranges, the other four kept
Raised(f) ==
    {[f EXCEPT !.black_spots_count = k] : k \in f.black_spots_count .. 21}
    \cup {[f EXCEPT !.surface_texture_score = t] : t \in f.surface_texture_score .. 4}
    \cup {[f EXCEPT !.skin_condition_score = s] : s \in f.skin_condition_score .. 5}
    \cup {[f EXCEPT !.visible_damage_flag = v] : v \in f.visible_damage_flag .. 1}
    \cup {[f EXCEPT !.sprouting_detected = sp] :
             sp \in {x \in SproutVals :
                        x.num * f.sprouting_detected.den
                          >= f.sprouting_detected.num * x.den}}

\* C29: raising one of black_spots_count, surface_texture_score,
\* skin_condition_score, visible_damage_flag or sprouting_detected, the
\* other fields kept, never increases the days calculateShelfLife returns
\* and never improves the grade getQualityGrade returns for them
ShelfLifeMonotone ==
    (pc = "graded" /\ Documented(features)) =>
        \A h \in Raised(features) :
            /\ calculateShelfLife(h) <= shelfLife
            /\ Rank(getQualityGrade(calculateShelfLife(h))) <= Rank(grade)

\* five spots give 26 days and grade A; a sixth spot gives 25 days and grade B
ShelfLifeMonotoneWitness ==
    /\ pc = "graded"
    /\ features = MakeRecord(5, 1, 1, 0, Zero)
    /\ shelfLife = 26 /\ grade = "A"
    /\ MakeRecord(6, 1, 1, 0, Zero) \in Raised(features)
    /\ calculateShelfLife(MakeRecord(6, 1, 1, 0, Zero)) = 25
    /\ getQualityGrade(25) = "B"

====
